---- MODULE Spec2Model ----
(***************************************************************************)
(* Fortnite tracker: per-player play sessions inferred from "latest match" *)
(* observations, inactivity-based closing, and the sweep-line overlap      *)
(* computation served by /api/state (src/index.js).                        *)
(*                                                                         *)
(* Instants are whole minutes since an arbitrary epoch; a stored ISO       *)
(* string is represented by its instant, and toMillis / toISOString are    *)
(* the conversions between minutes and milliseconds.                       *)
(***************************************************************************)
EXTENDS Integers, Sequences, FiniteSets, TLC

\* ---------------------------------------------------------------- config
INACTIVITY_MINUTES == 30

MS_PER_MINUTE == 60 * 1000

MAX_RETURNED == 100

\* null of the JavaScript source (lastMatchId: null, end: null, info null)
NULL == -1

AllPlayers == <<"Zumito Kun", "Lulau22", "Antocar69 TTV", "Cronoxis">>

\* ---------------------------------------------------------------- bounds
\* how many players of the roster are tracked
NumPlayers == 3

\* the clock runs over 0, TimeStep, ..., MaxTick * TimeStep
MaxTick == 2

\* distinct match identifiers the feed can report
NumMatchIds == 2

\* sessions kept in the store, all players together
MaxSessions == 2

\* scanAll runs that may be suspended on a fetch at the same time
MaxConcurrent == 2

\* a data.json read at startup: its instants are 0, TimeStep, ...,
\* MaxStoredTick * TimeStep and it holds at most MaxStored sessions
MaxStoredTick == 3

MaxStored == 3

\* the grid of instants: one inactivity window apart
TimeStep == INACTIVITY_MINUTES

PLAYERS == SubSeq(AllPlayers, 1, NumPlayers)

Names == {PLAYERS[i] : i \in 1..Len(PLAYERS)}

Times == {k * TimeStep : k \in 0..MaxTick}

StoredTimes == {k * TimeStep : k \in 0..MaxStoredTick}

\* the instants at which a loaded store is read
ReadTimes == {k * TimeStep : k \in 0..(MaxStoredTick + 2)}

MatchIds == 1..NumMatchIds

\* what scrapeLatestMatch resolves to: <<>> (null) or <<{matchId, atISO}>>
Observations == {<<>>} \cup {<<[matchId |-> m, atISO |-> t]>> : m \in MatchIds, t \in Times}

\* ---------------------------------------------------------------- state
VARIABLES
    players,      \* state.players: name -> [lastMatchId, lastMatchAt, sessions]
    latestMatch,  \* state.latestMatch: <<>> (null) or <<[player, matchId, at]>>
    disk,         \* data.json: <<>> (no file) or <<the saved state>>
    now,          \* the wall clock, nowUtc()
    awaiting,     \* awaiting[i]: scanAll runs suspended in the fetch of PLAYERS[i]
    phase,        \* main(): "boot", "first" (awaited first scan), "periodic", "noscrape"
    step,         \* what the step just taken did: the branch scanAll took, the sweep
    resp          \* the last /api/state response, until the next step

vars == <<players, latestMatch, disk, now, awaiting, phase, step, resp>>

\* ---------------------------------------------------------------- helpers
Abs(x) == IF x < 0 THEN -x ELSE x

Last(s) == s[Len(s)]

Range(s) == {s[i] : i \in 1..Len(s)}

defaultPlayers == [n \in Names |-> [lastMatchId |-> NULL, lastMatchAt |-> NULL, sessions |-> <<>>]]

\* ---------------------------------------------------------------- time
minutesBetween(aISO, bISO) ==
    IF aISO = NULL \/ bISO = NULL THEN NULL ELSE Abs(bISO - aISO)

toMillis(iso) == iso * MS_PER_MINUTE

toISOString(ms) == ms \div MS_PER_MINUTE

\* ---------------------------------------------------------------- sessions
hasOpenSession(p) == Len(p.sessions) > 0 /\ Last(p.sessions).end = NULL

\* variant: a new match opens a session even while one is open
ensureSessionAlwaysOpens(pl, player, matchAtISO) ==
    [pl EXCEPT ![player].sessions = Append(@, [start |-> matchAtISO, end |-> NULL])]

\* variant: a new match reopens the last session when it is closed
ensureSessionReopens(pl, player, matchAtISO) ==
    LET sessions == pl[player].sessions
    IN  IF Len(sessions) = 0
        THEN [pl EXCEPT ![player].sessions = Append(sessions, [start |-> matchAtISO, end |-> NULL])]
        ELSE [pl EXCEPT ![player].sessions[Len(sessions)].end = NULL]

ensureSessionOnNewMatch(pl, player, matchAtISO) ==
    LET sessions == pl[player].sessions
    IN  IF Len(sessions) = 0 \/ Last(sessions).end # NULL
        THEN [pl EXCEPT ![player].sessions = Append(sessions, [start |-> matchAtISO, end |-> NULL])]
        ELSE pl

closeInactiveOne(p, nowIso) ==
    LET n == Len(p.sessions)
        mins == minutesBetween(p.lastMatchAt, nowIso)
    IN  IF n = 0 \/ p.sessions[n].end # NULL THEN p
        ELSE IF p.lastMatchAt = NULL THEN [p EXCEPT !.sessions[n].end = nowIso]
        ELSE IF mins # NULL /\ mins > INACTIVITY_MINUTES
             THEN [p EXCEPT !.sessions[n].end = p.lastMatchAt]
             ELSE p

closeInactiveSessions(pl, nowIso) == [n \in Names |-> closeInactiveOne(pl[n], nowIso)]

isPlayingNow(p, nowIso) ==
    IF p.lastMatchAt = NULL THEN FALSE
    ELSE LET mins == minutesBetween(p.lastMatchAt, nowIso)
         IN  mins # NULL /\ mins <= INACTIVITY_MINUTES

\* ---------------------------------------------------------------- overlaps
\* variant: an open session always runs to now
sessionEndAlwaysNow(p, s, nowIso) ==
    IF s.end # NULL THEN s.end ELSE nowIso

\* where a session ends for the sweep: null drops the session
sessionEnd(p, s, nowIso) ==
    IF s.end # NULL THEN s.end
    ELSE IF isPlayingNow(p, nowIso) THEN nowIso ELSE NULL

\* the +1 / -1 events of sessions i.. of one player, in push order
RECURSIVE sessionEvents(_, _, _, _)
sessionEvents(p, who, nowIso, i) ==
    IF i > Len(p.sessions) THEN <<>>
    ELSE LET s == p.sessions[i]
             start == s.start
             end == sessionEnd(p, s, nowIso)
             rest == sessionEvents(p, who, nowIso, i + 1)
         IN  IF start = NULL \/ end = NULL THEN rest
             ELSE <<[t |-> toMillis(start), type |-> 1, who |-> who],
                    [t |-> toMillis(end), type |-> -1, who |-> who]>> \o rest

RECURSIVE buildEvents(_, _, _)
buildEvents(pl, nowIso, k) ==
    IF k > Len(PLAYERS) THEN <<>>
    ELSE sessionEvents(pl[PLAYERS[k]], PLAYERS[k], nowIso, 1) \o buildEvents(pl, nowIso, k + 1)

\* the comparator of events.sort: closing before opening at the same instant
compareEvents(a, b) == IF a.t = b.t THEN a.type - b.type ELSE a.t - b.t

\* Array.prototype.sort is stable: e goes after every element not greater than it
insertSorted(sorted, e) ==
    LET k == Cardinality({i \in 1..Len(sorted) : compareEvents(sorted[i], e) <= 0})
    IN  SubSeq(sorted, 1, k) \o <<e>> \o SubSeq(sorted, k + 1, Len(sorted))

RECURSIVE sortEvents(_, _)
sortEvents(events, n) ==
    IF n = 0 THEN <<>> ELSE insertSorted(sortEvents(events, n - 1), events[n])

\* Set.delete / Set.add on the active set, kept in insertion order
activeDelete(active, who) == SelectSeq(active, LAMBDA x : x # who)

activeAdd(active, who) == IF who \in Range(active) THEN active ELSE Append(active, who)

applyEvent(active, ev) ==
    IF ev.type = -1 THEN activeDelete(active, ev.who)
    ELSE IF ev.type = 1 THEN activeAdd(active, ev.who)
    ELSE active

\* variant: a gap is emitted without looking at its length
emitIntervalAnyGap(active, prevT, ev) ==
    IF prevT # NULL /\ Len(active) >= 2
    THEN <<[start |-> toISOString(prevT), end |-> toISOString(ev.t),
            durationMs |-> ev.t - prevT, players |-> active, count |-> Len(active)]>>
    ELSE <<>>

emitInterval(active, prevT, ev) ==
    IF prevT # NULL /\ Len(active) >= 2 /\ ev.t > prevT
    THEN <<[start |-> toISOString(prevT), end |-> toISOString(ev.t),
            durationMs |-> ev.t - prevT, players |-> active, count |-> Len(active)]>>
    ELSE <<>>

\* the sweep loop from event i on
RECURSIVE sweepEvents(_, _, _, _)
sweepEvents(events, i, active, prevT) ==
    IF i > Len(events) THEN <<>>
    ELSE emitInterval(active, prevT, events[i])
         \o sweepEvents(events, i + 1, applyEvent(active, events[i]), events[i].t)

\* every interval the sweep emits, before trimming
allIntervals(pl, nowIso) ==
    LET events == buildEvents(pl, nowIso, 1)
    IN  sweepEvents(sortEvents(events, Len(events)), 1, <<>>, NULL)

RECURSIVE summarize(_, _)
summarize(intervals, n) ==
    IF n = 0 THEN [exactly2Ms |-> 0, exactly3Ms |-> 0, exactly4Ms |-> 0]
    ELSE LET acc == summarize(intervals, n - 1)
             seg == intervals[n]
         IN  IF seg.count = 2 THEN [acc EXCEPT !.exactly2Ms = @ + seg.durationMs]
             ELSE IF seg.count = 3 THEN [acc EXCEPT !.exactly3Ms = @ + seg.durationMs]
             ELSE IF seg.count >= 4 THEN [acc EXCEPT !.exactly4Ms = @ + seg.durationMs]
             ELSE acc

\* intervals.slice(-MAX_RETURNED)
trimIntervals(intervals) ==
    IF Len(intervals) <= MAX_RETURNED THEN intervals
    ELSE SubSeq(intervals, Len(intervals) - MAX_RETURNED + 1, Len(intervals))

\* variant: the summary is taken over the returned intervals only
computeOverlapsAfterTrim(pl, nowIso) ==
    LET intervals == trimIntervals(allIntervals(pl, nowIso))
        acc == summarize(intervals, Len(intervals))
    IN  [summary |-> [exactly2Ms |-> acc.exactly2Ms, exactly3Ms |-> acc.exactly3Ms,
                      exactly4Ms |-> acc.exactly4Ms,
                      twoOrMoreMs |-> acc.exactly2Ms + acc.exactly3Ms + acc.exactly4Ms],
         intervals |-> intervals]

computeOverlaps(pl, nowIso) ==
    LET intervals == allIntervals(pl, nowIso)
        acc == summarize(intervals, Len(intervals))
    IN  [summary |-> [exactly2Ms |-> acc.exactly2Ms, exactly3Ms |-> acc.exactly3Ms,
                      exactly4Ms |-> acc.exactly4Ms,
                      twoOrMoreMs |-> acc.exactly2Ms + acc.exactly3Ms + acc.exactly4Ms],
         intervals |-> trimIntervals(intervals)]

\* ---------------------------------------------------------------- persistence
\* JSON text is kept as its tree: null is <<"null">>, any other scalar v is
\* <<"value", v>>, an array is a sequence, and an object is a record, or the
\* sequence of its entries in key order where the keys are player names
jsonScalar(v) == IF v = NULL THEN <<"null">> ELSE <<"value", v>>

scalarOf(j) == IF j = <<"null">> THEN NULL ELSE j[2]

stringifySessions(ss) ==
    [k \in 1..Len(ss) |-> [start |-> jsonScalar(ss[k].start), end |-> jsonScalar(ss[k].end)]]

stringifyPlayer(name, p) ==
    [name |-> name,
     lastMatchId |-> jsonScalar(p.lastMatchId),
     lastMatchAt |-> jsonScalar(p.lastMatchAt),
     sessions |-> stringifySessions(p.sessions)]

\* JSON.stringify(state)
jsonStringify(pl, lm) ==
    [players |-> [i \in 1..Len(PLAYERS) |-> stringifyPlayer(PLAYERS[i], pl[PLAYERS[i]])],
     latestMatch |-> IF lm = <<>> THEN <<"null">>
                     ELSE <<"value", [player |-> lm[1].player,
                                      matchId |-> jsonScalar(lm[1].matchId),
                                      at |-> jsonScalar(lm[1].at)]>>]

parseSessions(js) ==
    [k \in 1..Len(js) |-> [start |-> scalarOf(js[k].start), end |-> scalarOf(js[k].end)]]

parsePlayer(j) ==
    [lastMatchId |-> scalarOf(j.lastMatchId),
     lastMatchAt |-> scalarOf(j.lastMatchAt),
     sessions |-> parseSessions(j.sessions)]

\* variant: the roster loop resets every player of the roster
loadFromResetting(text) ==
    [players |-> defaultPlayers,
     latestMatch |-> IF text.latestMatch = <<"null">> THEN <<>>
                     ELSE <<[player |-> text.latestMatch[2].player,
                             matchId |-> scalarOf(text.latestMatch[2].matchId),
                             at |-> scalarOf(text.latestMatch[2].at)]>>]

\* loadState() on an existing data.json: JSON.parse, then every roster
\* player missing from the file gets an empty record
loadFrom(text) ==
    [players |-> [n \in Names |->
         LET found == {i \in 1..Len(text.players) : text.players[i].name = n}
         IN  IF found = {}
             THEN [lastMatchId |-> NULL, lastMatchAt |-> NULL, sessions |-> <<>>]
             ELSE parsePlayer(text.players[CHOOSE i \in found : TRUE])],
     latestMatch |-> IF text.latestMatch = <<"null">> THEN <<>>
                     ELSE <<[player |-> text.latestMatch[2].player,
                             matchId |-> scalarOf(text.latestMatch[2].matchId),
                             at |-> scalarOf(text.latestMatch[2].at)]>>]

\* saveState(): data.json now holds the text of the state
saveState(pl, lm) == <<jsonStringify(pl, lm)>>

\* ---------------------------------------------------------------- poll cycle
\* variant: a repeated match still refreshes lastMatchAt
observeRefreshing(pl, lm, name, info) ==
    IF info = <<>> THEN [players |-> pl, latestMatch |-> lm, saved |-> FALSE]
    ELSE IF info[1].matchId # pl[name].lastMatchId
         THEN LET upd == [pl EXCEPT ![name].lastMatchId = info[1].matchId,
                                    ![name].lastMatchAt = info[1].atISO]
              IN  [players |-> ensureSessionOnNewMatch(upd, name, info[1].atISO),
                   latestMatch |-> <<[player |-> name, matchId |-> info[1].matchId,
                                      at |-> info[1].atISO]>>,
                   saved |-> TRUE]
         ELSE [players |-> [pl EXCEPT ![name].lastMatchAt = info[1].atISO],
               latestMatch |-> lm, saved |-> FALSE]

\* the body of the scanAll loop for one player once its fetch has resolved
observe(pl, lm, name, info) ==
    IF info = <<>> THEN [players |-> pl, latestMatch |-> lm, saved |-> FALSE]
    ELSE IF info[1].matchId # pl[name].lastMatchId
         THEN LET upd == [pl EXCEPT ![name].lastMatchId = info[1].matchId,
                                    ![name].lastMatchAt = info[1].atISO]
              IN  [players |-> ensureSessionOnNewMatch(upd, name, info[1].atISO),
                   latestMatch |-> <<[player |-> name, matchId |-> info[1].matchId,
                                      at |-> info[1].atISO]>>,
                   saved |-> TRUE]
         ELSE [players |-> pl, latestMatch |-> lm, saved |-> FALSE]

running == {i \in 1..Len(PLAYERS) : awaiting[i] > 0}

RECURSIVE sumAwaiting(_)
sumAwaiting(i) == IF i = 0 THEN 0 ELSE awaiting[i] + sumAwaiting(i - 1)

\* an accepted observation may not grow a session log beyond the bound
RECURSIVE countSessions(_, _)
countSessions(pl, k) ==
    IF k = 0 THEN 0 ELSE Len(pl[PLAYERS[k]].sessions) + countSessions(pl, k - 1)

withinBound(name, info) ==
    info # <<>> /\ info[1].matchId # players[name].lastMatchId
    /\ ~hasOpenSession(players[name])
        => countSessions(players, Len(PLAYERS)) < MaxSessions

\* the value of step after a step that is not a scanAll step
Quiet == [op |-> "none", player |-> "", swept |-> FALSE, closed |-> {}]

\* which branch of the loop body a fetch result takes
branch(pl, name, info) ==
    IF info = <<>> THEN "nofetch"
    ELSE IF info[1].matchId # pl[name].lastMatchId THEN "new" ELSE "dup"

Init ==
    /\ players = defaultPlayers
    /\ latestMatch = <<>>
    /\ disk = <<>>
    /\ now = 0
    /\ awaiting = [i \in 1..Len(PLAYERS) |-> 0]
    /\ phase = "boot"
    /\ step = Quiet
    /\ resp = <<>>

\* main(): setupBrowser succeeded, the first scanAll suspends in its first fetch
MainStart ==
    /\ phase = "boot"
    /\ phase' = "first"
    /\ awaiting' = [awaiting EXCEPT ![1] = @ + 1]
    /\ step' = Quiet
    /\ resp' = <<>>
    /\ UNCHANGED <<players, latestMatch, disk, now>>

\* main(): setupBrowser threw, the web keeps serving without scraping
MainNoBrowser ==
    /\ phase = "boot"
    /\ phase' = "noscrape"
    /\ step' = Quiet
    /\ resp' = <<>>
    /\ UNCHANGED <<players, latestMatch, disk, now, awaiting>>

\* the setInterval callback: one more scanAll suspends in its first fetch
TimerFires ==
    /\ phase = "periodic"
    /\ sumAwaiting(Len(PLAYERS)) < MaxConcurrent
    /\ awaiting' = [awaiting EXCEPT ![1] = @ + 1]
    /\ step' = Quiet
    /\ resp' = <<>>
    /\ UNCHANGED <<players, latestMatch, disk, now, phase>>

\* a fetch resolves for a player that is not the last of the roster:
\* the loop body runs and the next fetch suspends
ScanStep(i, info) ==
    /\ i < Len(PLAYERS)
    /\ awaiting[i] > 0
    /\ withinBound(PLAYERS[i], info)
    /\ LET r == observe(players, latestMatch, PLAYERS[i], info)
       IN  /\ players' = r.players
           /\ latestMatch' = r.latestMatch
           /\ disk' = IF r.saved THEN saveState(r.players, r.latestMatch) ELSE disk
           /\ step' = [op |-> branch(players, PLAYERS[i], info), player |-> PLAYERS[i],
                        swept |-> FALSE, closed |-> {}]
    /\ awaiting' = [awaiting EXCEPT ![i] = @ - 1, ![i + 1] = @ + 1]
    /\ resp' = <<>>
    /\ UNCHANGED <<now, phase>>

\* the fetch of the last player resolves: the loop body, then the
\* inactivity sweep and the final save, and scanAll returns
ScanFinish(info) ==
    LET i == Len(PLAYERS)
        r == observe(players, latestMatch, PLAYERS[i], info)
        swept == closeInactiveSessions(r.players, now)
    IN  /\ awaiting[i] > 0
        /\ withinBound(PLAYERS[i], info)
        /\ players' = swept
        /\ latestMatch' = r.latestMatch
        /\ disk' = saveState(swept, r.latestMatch)
        /\ step' = [op |-> branch(players, PLAYERS[i], info), player |-> PLAYERS[i],
                     swept |-> TRUE,
                     closed |-> {n \in Names : hasOpenSession(r.players[n])
                                                /\ ~hasOpenSession(swept[n])}]
        /\ awaiting' = [awaiting EXCEPT ![i] = @ - 1]
        /\ phase' = IF phase = "first" THEN "periodic" ELSE phase
        /\ resp' = <<>>
        /\ UNCHANGED now

\* scrapeLatestMatch rejects (context.newPage or page.close throws outside the
\* retry loop): the scanAll run rejects, its caller logs the error
ScanThrows(i) ==
    /\ awaiting[i] > 0
    /\ awaiting' = [awaiting EXCEPT ![i] = @ - 1]
    /\ phase' = IF phase = "first" THEN "periodic" ELSE phase
    /\ step' = Quiet
    /\ resp' = <<>>
    /\ UNCHANGED <<players, latestMatch, disk, now>>

\* time passes
Tick ==
    /\ now < MaxTick * TimeStep
    /\ now' = now + TimeStep
    /\ step' = Quiet
    /\ resp' = <<>>
    /\ UNCHANGED <<players, latestMatch, disk, awaiting, phase>>

\* variant: the read stores the synthetic end of the open sessions it used
ApiStateWritingBack ==
    /\ resp = <<>>
    /\ players' = [n \in Names |->
                      IF hasOpenSession(players[n]) /\ isPlayingNow(players[n], now)
                      THEN [players[n] EXCEPT !.sessions[Len(players[n].sessions)].end = now]
                      ELSE players[n]]
    /\ resp' = <<[nowUtc |-> now,
                  latestMatch |-> latestMatch,
                  players |-> [n \in Names |->
                      [lastMatchId |-> players[n].lastMatchId,
                       lastMatchAt |-> players[n].lastMatchAt,
                       playingNow |-> isPlayingNow(players[n], now),
                       sessions |-> players[n].sessions]],
                  overlaps |-> computeOverlaps(players, now)]>>
    /\ UNCHANGED <<latestMatch, disk, now, awaiting, phase, step>>

\* GET /api/state
ApiState ==
    /\ resp = <<>>
    /\ resp' = <<[nowUtc |-> now,
                  latestMatch |-> latestMatch,
                  players |-> [n \in Names |->
                      [lastMatchId |-> players[n].lastMatchId,
                       lastMatchAt |-> players[n].lastMatchAt,
                       playingNow |-> isPlayingNow(players[n], now),
                       sessions |-> players[n].sessions]],
                  overlaps |-> computeOverlaps(players, now)]>>
    /\ UNCHANGED <<players, latestMatch, disk, now, awaiting, phase, step>>

\* ---------------------------------------------------------------- startup
\* loadState(): the session logs a data.json written by an earlier run can
\* hold. A log is a run of closed sessions, the last one possibly open; the
\* player's lastMatchAt is the end of a closed last session, or an instant
\* not before the start of an open one.
RECURSIVE closedLogs(_, _)
closedLogs(k, from) ==
    IF k = 0 THEN {<<>>}
    ELSE UNION {UNION {{<<[start |-> s, end |-> e]>> \o rest : rest \in closedLogs(k - 1, e)} :
                           e \in {t \in StoredTimes : t >= s}} :
                    s \in {t \in StoredTimes : t >= from}}

loadedRecords(k) ==
    IF k = 0 THEN {[lastMatchId |-> NULL, lastMatchAt |-> NULL, sessions |-> <<>>]}
    ELSE {[lastMatchId |-> 1, lastMatchAt |-> Last(ss).end, sessions |-> ss] :
              ss \in closedLogs(k, 0)}
         \cup
         UNION {UNION {{[lastMatchId |-> 1, lastMatchAt |-> t,
                         sessions |-> Append(ss, [start |-> s, end |-> NULL])] :
                            t \in {u \in StoredTimes : u >= s}} :
                       s \in {u \in StoredTimes : u >= (IF k = 1 THEN 0 ELSE Last(ss).end)}} :
                ss \in closedLogs(k - 1, 0)}

\* the stores of the first k players holding at most budget sessions
RECURSIVE loadedStores(_, _)
loadedStores(k, budget) ==
    IF k = 0 THEN {<<>>}
    ELSE UNION {{Append(st, r) : st \in loadedStores(k - 1, budget - j), r \in loadedRecords(j)} :
                    j \in 0..budget}

\* a long-running store: one player in a single long session while another
\* played MAX_RETURNED + 1 separate sessions inside it
longStore ==
    [n \in Names |->
        IF n = PLAYERS[1]
        THEN [lastMatchId |-> 1, lastMatchAt |-> (2 * MAX_RETURNED + 2) * TimeStep,
              sessions |-> <<[start |-> 0, end |-> (2 * MAX_RETURNED + 2) * TimeStep]>>]
        ELSE IF n = PLAYERS[2]
        THEN [lastMatchId |-> 1, lastMatchAt |-> (2 * MAX_RETURNED + 1) * TimeStep,
              sessions |-> [k \in 1..(MAX_RETURNED + 1) |->
                               [start |-> (2 * k - 2) * TimeStep, end |-> (2 * k - 1) * TimeStep]]]
        ELSE [lastMatchId |-> NULL, lastMatchAt |-> NULL, sessions |-> <<>>]]

loadState ==
    {[n \in Names |-> st[CHOOSE i \in 1..Len(PLAYERS) : PLAYERS[i] = n]] :
         st \in loadedStores(Len(PLAYERS), MaxStored)}
    \cup {longStore}

\* the clock is consistent with a store written under a feed that reported
\* no instant of the future: nothing stored is later than now, and every
\* closed session was closed by a sweep more than a window after its end
storeIsPast(pl, nowIso) ==
    \A n \in Names :
        /\ pl[n].lastMatchAt <= nowIso
        /\ \A i \in 1..Len(pl[n].sessions) :
               /\ pl[n].sessions[i].start <= nowIso
               /\ pl[n].sessions[i].end # NULL =>
                      nowIso - pl[n].sessions[i].end > INACTIVITY_MINUTES

\* the latestMatch a loaded store carries: the match of its first player that has one
loadedLatest(pl) ==
    LET has == {i \in 1..Len(PLAYERS) : pl[PLAYERS[i]].lastMatchId # NULL}
    IN  IF has = {} THEN <<>>
        ELSE LET i == CHOOSE j \in has : \A k \in has : j <= k
             IN  <<[player |-> PLAYERS[i], matchId |-> pl[PLAYERS[i]].lastMatchId,
                    at |-> pl[PLAYERS[i]].lastMatchAt]>>

\* the process restarted on an existing data.json, Playwright did not start:
\* the web serves the loaded store
InitLoaded ==
    /\ players \in loadState
    /\ latestMatch = loadedLatest(players)
    /\ disk = saveState(players, latestMatch)
    /\ now \in ReadTimes \cup {(2 * MAX_RETURNED + 4) * TimeStep}
    /\ storeIsPast(players, now)
    /\ players = longStore <=> now \notin ReadTimes
    /\ awaiting = [i \in 1..Len(PLAYERS) |-> 0]
    /\ phase = "noscrape"
    /\ step = Quiet
    /\ resp = <<>>

Next ==
    \/ MainStart
    \/ MainNoBrowser
    \/ TimerFires
    \/ \E i \in 1..Len(PLAYERS), info \in Observations : ScanStep(i, info)
    \/ \E info \in Observations : ScanFinish(info)
    \/ \E i \in 1..Len(PLAYERS) : ScanThrows(i)
    \/ Tick
    \/ ApiState

Spec == Init /\ [][Next]_vars

\* reads of a loaded store
SpecLoaded == InitLoaded /\ [][ApiState]_vars

\* ---------------------------------------------------------------- long runs
\* the clock of a long run goes on past the instants the feed reports
LiveHorizon == (MaxTick + 2) * TimeStep

TickOn ==
    /\ now >= MaxTick * TimeStep
    /\ now < LiveHorizon
    /\ now' = now + TimeStep
    /\ step' = Quiet
    /\ resp' = <<>>
    /\ UNCHANGED <<players, latestMatch, disk, awaiting, phase>>

\* the timer finds the previous scanAll run finished
TimerFiresIdle == TimerFires /\ running = {}

\* the browser started and cycles follow one another while time passes
NextLive ==
    \/ MainStart
    \/ TimerFiresIdle
    \/ \E i \in 1..Len(PLAYERS), info \in Observations : ScanStep(i, info)
    \/ \E info \in Observations : ScanFinish(info)
    \/ \E i \in 1..Len(PLAYERS) : ScanThrows(i)
    \/ Tick
    \/ TickOn

\* time advances, the timer keeps firing, and every pending fetch settles
\* (the navigation and selector timeouts bound it): it resolves or it rejects
LiveFairness ==
    /\ WF_vars(MainStart)
    /\ WF_vars(Tick \/ TickOn)
    /\ WF_vars(TimerFiresIdle)
    /\ \A i \in 1..Len(PLAYERS) :
           WF_vars((\E info \in Observations : ScanStep(i, info))
                   \/ (i = Len(PLAYERS) /\ \E info \in Observations : ScanFinish(info))
                   \/ ScanThrows(i))

SpecLive == Init /\ [][NextLive]_vars /\ LiveFairness

\* ================================================================ claims

\* ---------------------------------------------------------------- C1
\* C1: in every reachable state each player has at most one session with
\* end = null, and if there is one it is the last element of the log.
C1_OneOpenSessionAndLast ==
    \A n \in Names : \A i \in 1..Len(players[n].sessions) :
        players[n].sessions[i].end = NULL => i = Len(players[n].sessions)

\* a player whose log holds a closed session followed by an open one
C1_Witness ==
    \E n \in Names :
        /\ Len(players[n].sessions) = 2
        /\ players[n].sessions[1].end # NULL
        /\ players[n].sessions[2].end = NULL

\* ---------------------------------------------------------------- C2
\* C2: every session log is chronologically ordered and non-overlapping:
\* a closed session has start <= end, and of two consecutive sessions the
\* first is closed and ends no later than the second starts, whatever
\* timestamps the feed delivers.
C2_ChronologicalLog ==
    \A n \in Names :
        LET ss == players[n].sessions
        IN  /\ \A i \in 1..Len(ss) : ss[i].end # NULL => ss[i].start <= ss[i].end
            /\ \A i \in 1..(Len(ss) - 1) :
                   ss[i].end # NULL /\ ss[i].end <= ss[i + 1].start

\* ---------------------------------------------------------------- C3
\* the log of n across a step: same sessions, except that the cycle's sweep
\* may have closed the open one
sameButSweep(n) ==
    LET old == players[n].sessions
        new == players[n].sessions'
    IN  /\ Len(new) = Len(old)
        /\ \A k \in 1..Len(old) :
               /\ new[k].start = old[k].start
               /\ new[k].end # old[k].end =>
                      step'.swept /\ n \in step'.closed /\ k = Len(old) /\ old[k].end = NULL

\* C3: processing an observation whose matchId is the stored lastMatchId
\* changes nothing: lastMatchId, lastMatchAt and latestMatch keep their
\* values, no session is appended and no session is touched by it (the only
\* write such a step can make is the cycle's own inactivity sweep closing
\* an open session).
C3_DuplicateChangesNothing ==
    [][step'.op = "dup" =>
          /\ latestMatch' = latestMatch
          /\ \A n \in Names :
                 /\ players[n].lastMatchId' = players[n].lastMatchId
                 /\ players[n].lastMatchAt' = players[n].lastMatchAt
                 /\ sameButSweep(n)
          /\ ~step'.swept => players' = players]_vars

\* a repeated match was just processed for a player whose last session is
\* already closed, and it stayed closed
C3_Witness ==
    /\ step.op = "dup"
    /\ step.player \notin step.closed
    /\ Len(players[step.player].sessions) > 0
    /\ ~hasOpenSession(players[step.player])

\* ---------------------------------------------------------------- C4
\* C4 as stated: a sweep at instant now closes an open session with
\* lastMatchAt = T exactly when now - T > W, with end = T, and leaves it
\* open when now - T <= W.
C4_ClosesWhenElapsedExceeds ==
    step.swept =>
        \A n \in Names :
            LET T == players[n].lastMatchAt
            IN  /\ n \in step.closed =>
                       now - T > INACTIVITY_MINUTES /\ Last(players[n].sessions).end = T
                /\ hasOpenSession(players[n]) /\ T # NULL =>
                       now - T <= INACTIVITY_MINUTES

\* what the sweep does instead: minutesBetween is an absolute difference, so
\* the session is closed exactly when |now - T| > W (a last match stamped
\* more than W ahead of the clock closes it too), with end = T and never now.
C4_ClosesWhenDistanceExceeds ==
    step.swept =>
        \A n \in Names :
            LET T == players[n].lastMatchAt
            IN  /\ n \in step.closed =>
                       Abs(now - T) > INACTIVITY_MINUTES /\ Last(players[n].sessions).end = T
                /\ hasOpenSession(players[n]) /\ T # NULL =>
                       Abs(now - T) <= INACTIVITY_MINUTES

\* a sweep that closed one session at its last match, earlier than now, and
\* left open another whose last match is exactly one window old
C4_Witness ==
    /\ step.swept
    /\ \E n \in step.closed :
           /\ Last(players[n].sessions).end = players[n].lastMatchAt
           /\ players[n].lastMatchAt < now
    /\ \E n \in Names :
           /\ hasOpenSession(players[n])
           /\ now - players[n].lastMatchAt = INACTIVITY_MINUTES

\* ---------------------------------------------------------------- overlap claims
\* what a read has just seen: the intervals the sweep emitted for the store
emitted == allIntervals(players, now)

participants(iv) == Range(iv.players)

\* the session intervals of a player that are in force at the read: its
\* closed sessions and, while it is playing now, [start, now] of the open one
effective(n) ==
    LET p == players[n]
        ss == p.sessions
    IN  {[start |-> ss[i].start, end |-> ss[i].end] : i \in {j \in 1..Len(ss) : ss[j].end # NULL}}
        \cup (IF Len(ss) > 0 /\ ss[Len(ss)].end = NULL /\ p.lastMatchAt # NULL
                 /\ Abs(now - p.lastMatchAt) <= INACTIVITY_MINUTES
              THEN {[start |-> ss[Len(ss)].start, end |-> now]}
              ELSE {})

covers(n, a, b) == \E e \in effective(n) : e.start <= a /\ b <= e.end

coverSet(a, b) == {n \in Names : covers(n, a, b)}

\* every log is chronological and no interval in force runs backwards
orderedLogs ==
    \A n \in Names :
        LET ss == players[n].sessions
        IN  /\ \A i \in 1..Len(ss) : ss[i].end # NULL => ss[i].start <= ss[i].end
            /\ \A i \in 1..(Len(ss) - 1) : ss[i].end # NULL /\ ss[i].end <= ss[i + 1].start
            /\ \A e \in effective(n) : e.start <= e.end

\* the feed has reported no instant later than now
nothingFromTheFuture ==
    \A n \in Names :
        /\ players[n].lastMatchAt <= now
        /\ \A i \in 1..Len(players[n].sessions) :
               players[n].sessions[i].start <= now /\ players[n].sessions[i].end <= now

positiveLengths == \A n \in Names : \A e \in effective(n) : e.start < e.end

\* two players with one session each, [a,b] and [c,d] with a < c < b < d,
\* and nobody else
staggeredPair(m, n) ==
    /\ m # n
    /\ \A o \in Names \ {m, n} : effective(o) = {}
    /\ Cardinality(effective(m)) = 1 /\ Cardinality(effective(n)) = 1
    /\ \E x \in effective(m), y \in effective(n) :
           x.start < y.start /\ y.start < x.end /\ x.end < y.end

\* ---------------------------------------------------------------- C5
\* C5: for a store whose sessions are ordered, non-overlapping and of
\* positive length, every emitted interval has positive duration, its
\* participants are exactly the players with a session covering the whole
\* interval, and count = |participants| >= 2; sessions [a,b] and [c,d] of
\* two players with a < c < b < d give the single interval [c,b], count 2.
C5_IntervalsAreExactCoverage ==
    resp # <<>> /\ orderedLogs /\ positiveLengths =>
        LET ivs == emitted
        IN  /\ \A k \in 1..Len(ivs) :
                   LET iv == ivs[k]
                   IN  /\ iv.durationMs > 0
                       /\ iv.durationMs = (iv.end - iv.start) * MS_PER_MINUTE
                       /\ participants(iv) = coverSet(iv.start, iv.end)
                       /\ iv.count = Cardinality(participants(iv))
                       /\ iv.count = Len(iv.players)
                       /\ iv.count >= 2
            /\ \A m, n \in Names :
                   staggeredPair(m, n) =>
                       \A x \in effective(m), y \in effective(n) :
                           x.start < y.start =>
                               /\ Len(ivs) = 1
                               /\ ivs[1].start = y.start /\ ivs[1].end = x.end
                               /\ ivs[1].count = 2
            /\ \A k \in 1..Len(resp[1].overlaps.intervals) :
                   resp[1].overlaps.intervals[k] \in Range(ivs)

\* a read of a store holding just two staggered sessions of two players
C5_Witness ==
    /\ resp # <<>>
    /\ orderedLogs /\ positiveLengths
    /\ \E m, n \in Names : staggeredPair(m, n)
    /\ Len(resp[1].overlaps.intervals) = 1

\* ---------------------------------------------------------------- C6
\* the grid spans [t, t + TimeStep]
cells == {t \in ReadTimes : t + TimeStep \in ReadTimes}

intersecting(ivs, a, b) == {k \in 1..Len(ivs) : ivs[k].start < b /\ a < ivs[k].end}

\* C6: the breakdown is by exact concurrency: a span that exactly k >= 2
\* players cover is covered by an emitted interval of count k, and no
\* interval of a lower count lies in it; a span [a,b] covered throughout by
\* the same k players lies in a single emitted interval.
C6_ExactConcurrency ==
    resp # <<>> /\ orderedLogs /\ nothingFromTheFuture =>
        LET ivs == emitted
        IN  /\ \A a \in cells :
                   LET b == a + TimeStep
                       k == Cardinality(coverSet(a, b))
                   IN  k >= 2 =>
                           /\ \E i \in 1..Len(ivs) :
                                  /\ ivs[i].start <= a /\ b <= ivs[i].end
                                  /\ ivs[i].count = k
                           /\ \A i \in intersecting(ivs, a, b) : ivs[i].count >= k
            /\ \A a, b \in ReadTimes :
                   (/\ a < b
                    /\ Cardinality(coverSet(a, b)) >= 2
                    /\ \A c \in cells : a <= c /\ c + TimeStep <= b =>
                           coverSet(c, c + TimeStep) = coverSet(a, b))
                   => Cardinality(intersecting(ivs, a, b)) = 1

\* ---------------------------------------------------------------- C7
withoutZeroLength(pl) ==
    [n \in Names |->
        [pl[n] EXCEPT !.sessions = SelectSeq(pl[n].sessions, LAMBDA x : x.start # x.end)]]

\* C7: a zero-length session (start = end) never appears in the overlap
\* result: nobody is a participant of an interval without a session of
\* positive length covering it, and the result is the one computed with the
\* zero-length sessions removed from the store.
C7_ZeroLengthInvisible ==
    resp # <<>> /\ orderedLogs /\ nothingFromTheFuture =>
        LET ivs == emitted
        IN  /\ \A k \in 1..Len(ivs) : \A n \in participants(ivs[k]) :
                   \E e \in effective(n) :
                       /\ e.start < e.end
                       /\ e.start <= ivs[k].start /\ ivs[k].end <= e.end
            /\ resp[1].overlaps = computeOverlaps(withoutZeroLength(players), now)

\* ---------------------------------------------------------------- C8
\* a session of m ends where one of n starts, and nothing else is shared
onlyTouching(m, n) ==
    /\ \E x \in effective(m), y \in effective(n) : x.end = y.start
    /\ \A x \in effective(m), y \in effective(n) : x.end <= y.start \/ y.end <= x.start

\* C8: when a session of one player ends at the instant a session of
\* another player starts, and their sessions do not otherwise intersect, no
\* emitted interval has both players as participants.
C8_BoundaryNotShared ==
    resp # <<>> /\ orderedLogs /\ nothingFromTheFuture =>
        LET ivs == emitted
        IN  \A m, n \in Names :
                m # n /\ onlyTouching(m, n) =>
                    \A k \in 1..Len(ivs) : ~({m, n} \subseteq participants(ivs[k]))

\* ---------------------------------------------------------------- C9
\* the total durationMs of the first n intervals whose count is in counts
RECURSIVE durationOfCounts(_, _, _)
durationOfCounts(ivs, n, counts) ==
    IF n = 0 THEN 0
    ELSE durationOfCounts(ivs, n - 1, counts)
         + (IF ivs[n].count \in counts THEN ivs[n].durationMs ELSE 0)

\* C9: twoOrMoreMs = exactly2Ms + exactly3Ms + exactly4Ms, each bucket being
\* the sum of durationMs over all emitted intervals of count 2, 3 and >= 4,
\* taken over every emitted interval and not only over the returned ones.
C9_SummaryOverAllIntervals ==
    resp # <<>> =>
        LET sm == resp[1].overlaps.summary
            ivs == emitted
            n == Len(ivs)
        IN  /\ sm.exactly2Ms = durationOfCounts(ivs, n, {2})
            /\ sm.exactly3Ms = durationOfCounts(ivs, n, {3})
            /\ sm.exactly4Ms = durationOfCounts(ivs, n, 4..Len(PLAYERS))
            /\ sm.twoOrMoreMs = sm.exactly2Ms + sm.exactly3Ms + sm.exactly4Ms
            /\ sm.twoOrMoreMs = durationOfCounts(ivs, n, 2..Len(PLAYERS))

\* a read that returned MAX_RETURNED intervals out of more emitted ones
C9_Witness ==
    /\ resp # <<>>
    /\ Len(emitted) > MAX_RETURNED
    /\ Len(resp[1].overlaps.intervals) = MAX_RETURNED
    /\ resp[1].overlaps.summary.twoOrMoreMs > 0

\* ---------------------------------------------------------------- C10
\* C10: no /api/state read sees a partially updated store: a snapshot is
\* never taken between the update of one player by a poll cycle and the end
\* of that cycle (its remaining players and its inactivity sweep).
C10_SnapshotNotMidCycle ==
    resp # <<>> => ~(step.op = "new" /\ ~step.swept /\ running # {})

\* ---------------------------------------------------------------- C11
\* C11: a failure while fetching one player's observation never aborts the
\* poll cycle: a scanAll run only ever ends after its last player, with the
\* inactivity sweep and the final save done.
C11_FailureNeverAborts ==
    [][sumAwaiting(Len(PLAYERS))' < sumAwaiting(Len(PLAYERS)) =>
           step'.swept /\ disk' = saveState(players', latestMatch')]_vars

\* ---------------------------------------------------------------- C12
\* C12: latestMatch, when not null, is the most recent match event across
\* all players: its timestamp is >= every player's lastMatchAt and it is the
\* (name, lastMatchId, lastMatchAt) of the player it names.
\* (Stated for stores in which no match is stamped ahead of the clock.)
C12_LatestIsMostRecent ==
    latestMatch # <<>> /\ (\A n \in Names : players[n].lastMatchAt <= now) =>
        /\ \A n \in Names : players[n].lastMatchAt <= latestMatch[1].at
        /\ latestMatch[1].matchId = players[latestMatch[1].player].lastMatchId
        /\ latestMatch[1].at = players[latestMatch[1].player].lastMatchAt

\* ---------------------------------------------------------------- C13
\* C13: a new match accepted at T2 for a player whose previous lastMatchAt T1
\* is more than one window older starts a new session, the earlier session
\* ending at T1; it is never absorbed into the session that contained T1.
\* (Stated for matches that are not stamped ahead of the clock.)
C13_FirstMatchAfterInactivityOpens ==
    [][\A n \in Names :
           LET T1 == players[n].lastMatchAt
               T2 == players[n].lastMatchAt'
               old == players[n].sessions
               new == players[n].sessions'
           IN  (/\ step'.op = "new" /\ step'.player = n
                /\ T1 # NULL /\ T2 - T1 > INACTIVITY_MINUTES
                /\ T1 <= now /\ T2 <= now) =>
                   /\ Len(new) = Len(old) + 1
                   /\ new[Len(new)].start = T2
                   /\ new[Len(old)].end = T1]_vars

\* ---------------------------------------------------------------- C14
\* the store with every open session made explicit: closed at now when its
\* player is playing now, dropped otherwise
materialized(pl, nowIso) ==
    [n \in Names |->
        IF ~hasOpenSession(pl[n]) THEN pl[n]
        ELSE IF isPlayingNow(pl[n], nowIso)
             THEN [pl[n] EXCEPT !.sessions[Len(pl[n].sessions)].end = nowIso]
             ELSE [pl[n] EXCEPT !.sessions = SubSeq(@, 1, Len(@) - 1)]]

\* C14: an open session enters the overlap computation as [start, now] if
\* and only if its player is playing now; the open session of a player who
\* is not playing contributes nothing, so the result is the one computed
\* with that session removed.
C14_OpenSessionOnlyIfPlaying ==
    resp # <<>> => resp[1].overlaps = computeOverlaps(materialized(players, now), now)

\* a read in which an idle player's open session spans an emitted interval
\* without taking part in it, while a playing player's open session takes
\* part in an interval that runs to now
C14_Witness ==
    /\ resp # <<>>
    /\ \E m \in Names :
           /\ hasOpenSession(players[m]) /\ ~isPlayingNow(players[m], now)
           /\ \E k \in 1..Len(resp[1].overlaps.intervals) :
                  LET iv == resp[1].overlaps.intervals[k]
                  IN  m \notin participants(iv) /\ Last(players[m].sessions).start <= iv.start
    /\ \E n \in Names :
           /\ hasOpenSession(players[n]) /\ isPlayingNow(players[n], now)
           /\ \E k \in 1..Len(resp[1].overlaps.intervals) :
                  LET iv == resp[1].overlaps.intervals[k]
                  IN  n \in participants(iv) /\ iv.end = now

\* ---------------------------------------------------------------- C15
\* C15: while cycles keep running and time advances, an open session for
\* whose player no new match is accepted afterwards is eventually closed,
\* also when every fetch returns nothing or only repeated matches.
C15_OpenSessionEventuallyCloses ==
    \A n \in Names :
        hasOpenSession(players[n]) ~>
            (~hasOpenSession(players[n]) \/ (step.op = "new" /\ step.player = n))

\* ---------------------------------------------------------------- C16
\* C16: the session log is append-only except for closing its last element:
\* across every step no session is removed or reordered, no start changes,
\* an end that is set never changes again, and the only writes are appending
\* a session and setting the end of the last, open one.
C16_AppendOnlyLog ==
    [][\A n \in Names :
           LET old == players[n].sessions
               new == players[n].sessions'
           IN  /\ Len(old) <= Len(new) /\ Len(new) <= Len(old) + 1
               /\ \A k \in 1..Len(old) :
                      /\ new[k].start = old[k].start
                      /\ new[k].end # old[k].end => old[k].end = NULL /\ k = Len(old)]_vars

\* a sweep has just closed the second session of a player's log, the first
\* one having been closed earlier
C16_Witness ==
    /\ step.swept
    /\ \E n \in step.closed :
           /\ Len(players[n].sessions) = 2
           /\ players[n].sessions[1].end # NULL
           /\ players[n].sessions[2].end # NULL

\* ---------------------------------------------------------------- C17
\* C17: computing the overlaps and building the snapshot is read-only: the
\* sessions, lastMatchId, lastMatchAt of every player and latestMatch are
\* left unchanged, and the [start, now] interval used for a still-open
\* session is not written back as its end.
C17_ReadOnlySnapshot ==
    [][resp = <<>> /\ resp' # <<>> =>
           /\ players' = players
           /\ latestMatch' = latestMatch
           /\ disk' = disk
           /\ \A n \in Names : resp'[1].players[n].sessions = players[n].sessions]_vars

\* a read whose overlaps hold an interval running to now, made of the open
\* session of a playing player, which the store still holds as open
C17_Witness ==
    /\ resp # <<>>
    /\ \E n \in Names :
           /\ hasOpenSession(players[n])
           /\ Last(resp[1].players[n].sessions).end = NULL
           /\ resp[1].players[n].playingNow
           /\ \E k \in 1..Len(resp[1].overlaps.intervals) :
                  /\ n \in participants(resp[1].overlaps.intervals[k])
                  /\ resp[1].overlaps.intervals[k].end = now

\* ---------------------------------------------------------------- C18
\* C18: saving a state and loading it again with the same roster gives, for
\* every player, the same sessions (order, start, end, open ones still
\* open) and the same lastMatchId and lastMatchAt.
C18_SaveLoadRoundTrip ==
    disk = saveState(players, latestMatch) =>
        \A n \in Names :
            LET loaded == loadFrom(disk[1]).players[n]
            IN  /\ loaded.sessions = players[n].sessions
                /\ loaded.lastMatchId = players[n].lastMatchId
                /\ loaded.lastMatchAt = players[n].lastMatchAt

\* a saved store in which one player has a closed session followed by an
\* open one and another player has never been seen
C18_Witness ==
    /\ disk = saveState(players, latestMatch)
    /\ \E n \in Names :
           /\ Len(players[n].sessions) >= 2
           /\ players[n].sessions[1].end # NULL
           /\ hasOpenSession(players[n])
    /\ \E n \in Names : players[n].lastMatchId = NULL /\ players[n].sessions = <<>>

\* ---------------------------------------------------------------- C19
\* C19: at most one poll cycle is in progress at any time: the timer never
\* starts a scanAll run while an earlier one is still waiting on a fetch.
C19_SingleCycle == sumAwaiting(Len(PLAYERS)) <= 1

\* ---------------------------------------------------------------- C20
\* C20: a player's lastMatchAt never moves backwards: across every step the
\* stored lastMatchAt is non-decreasing, also when an observation carries a
\* different matchId with an older timestamp. (Stated for a stored
\* lastMatchAt that is not ahead of the clock.)
C20_LastMatchAtMonotonic ==
    [][\A n \in Names :
           players[n].lastMatchAt # NULL /\ players[n].lastMatchAt <= now =>
               players[n].lastMatchAt' >= players[n].lastMatchAt]_vars

\* ---------------------------------------------------------------- C21
\* C21: at every instant, a player reported as playing now (lastMatchAt
\* present and within the window of now) has an open last session; and
\* right after a completed inactivity sweep every player that still has an
\* open session is playing now.
C21_PlayingNowIffOpen ==
    /\ \A n \in Names : isPlayingNow(players[n], now) => hasOpenSession(players[n])
    /\ step.swept =>
           \A n \in Names : hasOpenSession(players[n]) => isPlayingNow(players[n], now)

====
